---- MODULE Spec2Model ----
(***************************************************************************)
(* src/FileManager.py holds two programs that run one after the other.     *)
(* UltraAdvancedFileDialog (first program): its directory and file lists,  *)
(* the filter, navigation, selection and delete.                           *)
(* NLFM v5.4 (second program): the first FileManagerTab in full, the       *)
(* notebook and its further tabs, the scan worker pool, the metadata       *)
(* cache, the watchdog handler and the asyncio file operations.            *)
(*                                                                         *)
(* Strings are sequences of one-character strings: "a.t" is <<"a",".","t">>.*)
(***************************************************************************)
EXTENDS Integers, Sequences, FiniteSets, TLC

\* ------------------------------------------------------------------------
\* Bounds of the model
\* ------------------------------------------------------------------------
MaxScans == 2      \* scans submitted by _filter in one run
MaxEnv == 2        \* filesystem changes made by other processes in one run
MaxOps == 2        \* copy/move/trash operations submitted in one run
MaxTabs == 3       \* tabs created in one run, the first one included
MaxRefresh == 2    \* refreshes of the dialog pending at one time

\* EXECUTOR = ThreadPoolExecutor(max_workers=4)
max_workers == 4
\* fuzz.partial_ratio(pattern, name) > 60
FUZZY_THRESHOLD == 60

Max(a, b) == IF a >= b THEN a ELSE b

\* ------------------------------------------------------------------------
\* The matchers start_scan uses
\* ------------------------------------------------------------------------

\* fnmatch.fnmatch(name, pat) on a POSIX host (normcase is the identity):
\* '*' any run, '?' one character, everything else literal (a '[' that no
\* ']' closes is literal too; the pattern alphabet below holds no ']').
RECURSIVE GlobFrom(_, _, _, _)
GlobFrom(name, pat, i, j) ==
    IF j > Len(pat) THEN i > Len(name)
    ELSE IF pat[j] = "*"
         THEN GlobFrom(name, pat, i, j + 1)
              \/ (i <= Len(name) /\ GlobFrom(name, pat, i + 1, j))
    ELSE IF i > Len(name) THEN FALSE
    ELSE IF pat[j] = "?" THEN GlobFrom(name, pat, i + 1, j + 1)
    ELSE pat[j] = name[i] /\ GlobFrom(name, pat, i + 1, j + 1)

fnmatch(name, pat) == GlobFrom(name, pat, 1, 1)

\* re.compile(pattern) for the subset: literal characters, '.', and the
\* postfix quantifiers '*' and '?' (optionally made lazy by one more '?').
\* A quantifier with nothing to repeat, a second quantifier, and any
\* parenthesis (never balanced in the pattern alphabet) are re.error.
RECURSIVE ReTokens(_, _, _)
ReTokens(pat, i, acc) ==
    IF i > Len(pat) THEN [ok |-> TRUE, toks |-> acc]
    ELSE IF pat[i] \in {"*", "?", "(", ")"} THEN [ok |-> FALSE, toks |-> <<>>]
    ELSE LET q  == IF i + 1 <= Len(pat) /\ pat[i + 1] \in {"*", "?"}
                   THEN pat[i + 1] ELSE "1"
             n1 == IF q = "1" THEN i + 1 ELSE i + 2
             n2 == IF q # "1" /\ n1 <= Len(pat) /\ pat[n1] = "?"
                   THEN n1 + 1 ELSE n1
         IN ReTokens(pat, n2, Append(acc, [atom |-> pat[i], q |-> q]))

re_compiles(pat) == ReTokens(pat, 1, <<>>).ok

RECURSIVE ReMatchAt(_, _, _, _)
ReMatchAt(toks, k, name, i) ==
    IF k > Len(toks) THEN TRUE
    ELSE LET t    == toks[k]
             here == i <= Len(name) /\ (t.atom = "." \/ t.atom = name[i])
         IN CASE t.q = "1" -> here /\ ReMatchAt(toks, k + 1, name, i + 1)
              [] t.q = "?" -> ReMatchAt(toks, k + 1, name, i)
                              \/ (here /\ ReMatchAt(toks, k + 1, name, i + 1))
              [] t.q = "*" -> ReMatchAt(toks, k + 1, name, i)
                              \/ (here /\ ReMatchAt(toks, k, name, i + 1))

\* re.search(pattern, name) for a pattern that compiles: unanchored.
re_search(pat, name) ==
    LET toks == ReTokens(pat, 1, <<>>).toks
    IN \E i \in 1..(Len(name) + 1) : ReMatchAt(toks, 1, name, i)

\* rapidfuzz: fuzz.ratio(s, t) = 100 * 2*LCS(s, t) / (|s| + |t|) (normalised
\* Indel similarity), and fuzz.partial_ratio(s, t) is the best ratio of the
\* shorter string against the windows of the longer one.
RECURSIVE LCS(_, _, _, _)
LCS(s, t, i, j) ==
    IF i > Len(s) \/ j > Len(t) THEN 0
    ELSE IF s[i] = t[j] THEN 1 + LCS(s, t, i + 1, j + 1)
    ELSE Max(LCS(s, t, i + 1, j), LCS(s, t, i, j + 1))

\* fuzz.ratio(s, t) > cut, without rounding
RatioAbove(s, t, cut) ==
    IF Len(s) + Len(t) = 0 THEN 100 > cut
    ELSE 200 * LCS(s, t, 1, 1) > cut * (Len(s) + Len(t))

\* the windows of `long` that partial_ratio aligns a string of length m with
Windows(long, m) ==
    LET n == Len(long)
    IN  {SubSeq(long, 1, i) : i \in 1..(m - 1)}
        \cup {SubSeq(long, i + 1, i + m) : i \in 0..(n - m - 1)}
        \cup {SubSeq(long, i + 1, n) : i \in (n - m)..(n - 1)}

\* fuzz.partial_ratio(s, t) > cut
PartialRatioAbove(s, t, cut) ==
    IF Len(s) = 0 /\ Len(t) = 0 THEN 100 > cut
    ELSE LET short == IF Len(s) <= Len(t) THEN s ELSE t
             long  == IF Len(s) <= Len(t) THEN t ELSE s
         IN (\E w \in Windows(long, Len(short)) : RatioAbove(short, w, cut))
            \/ (Len(s) = Len(t)
                /\ \E w \in Windows(short, Len(long)) : RatioAbove(long, w, cut))

\* ------------------------------------------------------------------------
\* The filesystem the tab looks at
\* ------------------------------------------------------------------------

\* "home" is the first tab's directory (Path.home()); "sub" is its subdirectory "s",
\* the mount point of another volume; "cwd" is the process's working
\* directory, against which a relative path is resolved.
Dirs == {"home", "sub"}
SubName == <<"s">>
FileNames == {<<"a", ".", "t">>, <<"b", ".", "l">>}
NameOrder == <<(<<"a", ".", "t">>), (<<"b", ".", "l">>)>>
FilePaths == Dirs \X FileNames
SubPath == <<"home", SubName>>
Volume(d) == IF d = "sub" THEN 2 ELSE 1

\* what the user can type into the filter entry
Patterns == {<<"*">>, <<"*", ".", "t">>, <<"a", ".", "l">>, <<"(">>}

\* os.path.join(dir, name) and os.path.basename(path)
join(d, n) == <<d, n>>
basename(fp) == fp[2]
dirname(fp) == fp[1]

\* iterating the string 'refresh' yields its characters, each of them a
\* relative path when handed to os.stat
RefreshChars == <<"r", "e", "f", "r", "e", "s", "h">>
Refresh == [k \in 1..Len(RefreshChars) |-> join("cwd", <<RefreshChars[k]>>)]

VARIABLES
    FUZZY_ENABLED,  \* whether `from rapidfuzz import fuzz` succeeded
    fsys,           \* FilePaths -> content version of the file, 0 = no file
    denied,         \* directories that cannot be listed or traversed
    META_CACHE,     \* path -> (size, mtime), the diskcache
    filter_entry,   \* text of the tab's filter entry
    use_regex,      \* the Regex check box
    recursive,      \* the Recursive check box
    queue,          \* self.queue of the tab
    tree,           \* rows of self.tree
    sel,            \* index of the first selected row, 0 = none
    status,         \* the status label: the count of items it shows
    checks,         \* pending frame.after(100, self._check) timers
    scans,          \* tasks submitted to EXECUTOR and not finished
    nsub,           \* number of scans submitted so far
    consumed,       \* ids of the scan results _populate was called with
    events,         \* filesystem events watchdog has not dispatched yet
    envn,           \* number of filesystem changes made by other processes
    ops,            \* futures of run_coroutine_threadsafe, by submission
    log,            \* lines of the log console
    errors,         \* functions whose exception was reported to the user
    unscanned,      \* a watchdog event was dispatched and no scan was
                    \* submitted since
    current_path,   \* current_path of the manager
    tabs,           \* the FileManagerTab objects by creation: self.path, and
                    \* whether the tab's frame is in the notebook
    more,           \* of each tab after the first: its queue, its pending
                    \* _check timers, the rows of its tree, its status label
    observers,      \* the watchdog Observers running: tab and watched path
    directory,      \* UltraAdvancedFileDialog: self.directory
    dlg_filter,     \* its filter entry: the directory and the pattern in it
    dlg_regex,      \* its Regex check box (self.use_regex of the dialog)
    dir_listbox,    \* the entries of its directory list
    file_tree,      \* the names in its file list
    file_sel,       \* the names selected in its file list
    refreshes,      \* pending top.after(1, self._refresh_listing) timers
    listed          \* the directory the two lists were last filled from

\* the notebook: what the tabs after the first add to the state
nbvars == <<current_path, tabs, more, observers>>

\* the dialog, the first program of the file
dlgvars == <<directory, dlg_filter, dlg_regex, dir_listbox, file_tree,
             file_sel, refreshes, listed>>

\* what NLFM keeps besides the files
nlfmvars == <<FUZZY_ENABLED, META_CACHE, filter_entry, use_regex, recursive,
              queue, tree, sel, status, checks, scans, nsub, consumed, ops,
              log, errors, unscanned, nbvars>>

vars == <<fsys, denied, events, envn, nlfmvars, dlgvars>>

\* the files at start: a.t and b.l in "home", a.t in "sub", each with its
\* own content
InitFiles ==
    (join("home", NameOrder[1]) :> 1) @@ (join("home", NameOrder[2]) :> 2)
    @@ (join("sub", NameOrder[1]) :> 3) @@ (join("sub", NameOrder[2]) :> 0)
\* the stamp of the first write by another process
FirstStamp == Cardinality(FilePaths) + 1

\* st_size and st_mtime of a file whose content version is v
StatOf(v) == <<v, v>>
\* a directory's own size and mtime are not tracked
DirStat == <<0, 0>>

IsFile(fp) == fp \in FilePaths /\ fsys[fp] # 0
\* os.stat(fp) raises: no such file, or its directory cannot be traversed
StatRaises(fp) ==
    IF fp = SubPath THEN "home" \in denied
    ELSE ~IsFile(fp) \/ dirname(fp) \in denied
os_stat(fp) == IF fp = SubPath THEN DirStat ELSE StatOf(fsys[fp])

\* names of the files of directory d, in directory order
FilesOf(d) == SelectSeq(NameOrder, LAMBDA n : fsys[join(d, n)] # 0)
\* fs.ls(d): every entry of d, files and subdirectories alike
ls(d) ==
    [k \in 1..Len(FilesOf(d)) |-> join(d, FilesOf(d)[k])]
    \o (IF d = "home" THEN <<SubPath>> ELSE <<>>)
\* fs.walk(root): (dirpath, files) of every directory that can be listed;
\* a directory whose listing fails is left out, the walk does not raise
walk(root) ==
    LET below == IF root = "home" THEN <<"home", "sub">> ELSE <<root>>
    IN  IF root \in denied THEN <<>>
        ELSE SelectSeq(below, LAMBDA d : d \notin denied)

\* ------------------------------------------------------------------------
\* start_scan
\* ------------------------------------------------------------------------

\* joins of the files of the directories ds, directory by directory
RECURSIVE WalkFiles(_)
WalkFiles(ds) ==
    IF ds = <<>> THEN <<>>
    ELSE [k \in 1..Len(FilesOf(Head(ds))) |-> join(Head(ds), FilesOf(Head(ds))[k])]
         \o WalkFiles(Tail(ds))

\* the paths whose names scan() tests, in the order it meets them
Candidates(root, rec) == IF rec THEN WalkFiles(walk(root)) ELSE ls(root)

\* the chain with the fuzzy branch not guarded by FUZZY_ENABLED
MatchesUnguarded(name, pattern, regex, fuzzy) ==
    \/ regex /\ re_search(pattern, name)
    \/ fuzzy /\ PartialRatioAbove(pattern, name, FUZZY_THRESHOLD)
    \/ fnmatch(name, pattern)

\* the if/elif chain on one name, for a pattern re.search accepts
Matches(name, pattern, regex, fuzzy) ==
    \/ regex /\ re_search(pattern, name)
    \/ fuzzy /\ FUZZY_ENABLED /\ PartialRatioAbove(pattern, name, FUZZY_THRESHOLD)
    \/ fnmatch(name, pattern)

\* scan() raises: fs.ls of a directory that cannot be listed, or re.search
\* with a pattern that does not compile, on the first name tested
ScanRaises(t) ==
    \/ ~t.recursive /\ t.root \in denied
    \/ /\ t.use_regex /\ ~re_compiles(t.pattern)
       /\ Candidates(t.root, t.recursive) # <<>>

\* the list scan() builds when it does not raise
ScanResults(t) ==
    SelectSeq(Candidates(t.root, t.recursive),
              LAMBDA fp : Matches(basename(fp), t.pattern, t.use_regex, t.fuzzy))

\* a line of the log console, without its time stamp: the message, the
\* count it gives (0 when it gives none) and the paths it names
NoPath == <<"", <<>>>>
LogLine(msg, n, fp, dst) == [msg |-> msg, n |-> n, fp |-> fp, dst |-> dst]

\* EXECUTOR.submit(scan): the task start_scan queues; q is the number of
\* the tab whose queue the result goes to
ScanTask(id, path, pattern, regex, rec, q, fuzzy) ==
    [id |-> id, root |-> path, pattern |-> pattern, use_regex |-> regex,
     recursive |-> rec, q |-> q, fuzzy |-> fuzzy, st |-> "queued",
     results |-> <<>>]

Remove(seq, i) == SubSeq(seq, 1, i - 1) \o SubSeq(seq, i + 1, Len(seq))

\* FileManagerTab._filter of the first tab with the form holding (pattern,
\* regex, rec): start_scan(self.path, ..., fuzzy=True) and
\* frame.after(100, self._check)
filter(pattern, regex, rec) ==
    /\ nsub < MaxScans
    /\ scans' = Append(scans, ScanTask(nsub + 1, tabs[1].path, pattern, regex,
                                        rec, 1, TRUE))
    /\ nsub' = nsub + 1
    /\ checks' = checks + 1
    /\ unscanned' = FALSE

\* scan() started only while no operation is being executed, as if the
\* operations were run by the workers of EXECUTOR one at a time
ScanRunBehindOps(i) ==
    /\ i \in 1..Len(scans)
    /\ scans[i].st = "queued"
    /\ \A j \in 1..(i - 1) : scans[j].st # "queued"
    /\ Cardinality({j \in 1..Len(scans) : scans[j].st = "running"}) < max_workers
    /\ \A k \in 1..Len(ops) : ops[k].st \notin {"running", "copied"}
    /\ scans' = IF ScanRaises(scans[i]) THEN Remove(scans, i)
                ELSE [scans EXCEPT ![i].st = "running",
                                   ![i].results = ScanResults(scans[i])]
    /\ UNCHANGED <<FUZZY_ENABLED, fsys, denied, META_CACHE, filter_entry,
                   use_regex, recursive, queue, tree, sel, checks, nsub,
                   consumed, events, envn, ops, log, errors, unscanned,
                   status,
                   nbvars, dlgvars>>

\* a worker thread of EXECUTOR takes the oldest queued task and runs scan()
\* up to the listing and matching; a raise ends the task, its exception kept
\* in a Future nobody holds
ScanRun(i) ==
    /\ i \in 1..Len(scans)
    /\ scans[i].st = "queued"
    /\ \A j \in 1..(i - 1) : scans[j].st # "queued"
    /\ Cardinality({j \in 1..Len(scans) : scans[j].st = "running"}) < max_workers
    /\ scans' = IF ScanRaises(scans[i]) THEN Remove(scans, i)
                ELSE [scans EXCEPT ![i].st = "running",
                                   ![i].results = ScanResults(scans[i])]
    /\ UNCHANGED <<FUZZY_ENABLED, fsys, denied, META_CACHE, filter_entry,
                   use_regex, recursive, queue, tree, sel, checks, nsub,
                   consumed, events, envn, ops, log, errors, unscanned,
                   status,
                   nbvars, dlgvars>>

\* the end of scan(): log_fn(...) and q.put(results). log_fn is the
\* manager's log, a Tk call made from the worker thread: it returns once
\* the main loop has served it, which is why the put is a step of its own.
ScanPut(i) ==
    /\ i \in 1..Len(scans)
    /\ scans[i].st = "running"
    /\ log' = log \cup {LogLine("Scanned", Len(scans[i].results),
                                  join(scans[i].root, <<>>), NoPath)}
    /\ LET item == [id |-> scans[i].id, paths |-> scans[i].results]
       IN IF scans[i].q = 1
          THEN queue' = Append(queue, item) /\ more' = more
          ELSE /\ more' = [more EXCEPT ![scans[i].q].queue = Append(@, item)]
               /\ queue' = queue
    /\ scans' = Remove(scans, i)
    /\ UNCHANGED <<FUZZY_ENABLED, fsys, denied, META_CACHE, filter_entry,
                   use_regex, recursive, tree, sel, checks, nsub, consumed,
                   events, envn, ops, errors, unscanned, status,
                   current_path, tabs, observers,
                   dlgvars>>

\* ------------------------------------------------------------------------
\* FileManagerTab: the filter form, _check and _populate
\* ------------------------------------------------------------------------

\* the user sets the filter form and presses Return in the filter entry
FilterReturn(pattern, regex, rec) ==
    /\ filter_entry' = pattern
    /\ use_regex' = regex
    /\ recursive' = rec
    /\ filter(pattern, regex, rec)
    /\ UNCHANGED <<FUZZY_ENABLED, fsys, denied, META_CACHE, queue, tree, sel,
                   consumed, events, envn, ops, log, errors,
                   status,
                   nbvars, dlgvars>>

\* View > Toggle Recursive
toggle_recursive ==
    /\ recursive' = ~recursive
    /\ filter(filter_entry, use_regex, ~recursive)
    /\ UNCHANGED <<FUZZY_ENABLED, fsys, denied, META_CACHE, filter_entry,
                   use_regex, queue, tree, sel, consumed, events, envn, ops,
                   log, errors,
                   status,
                   nbvars, dlgvars>>

\* the loop of _populate from the i-th path on: cache and rows so far, and
\* whether os.stat raised (which ends the loop and the callback)
RECURSIVE PopulateFrom(_, _, _, _)
PopulateFrom(paths, i, cache, rows) ==
    IF i > Len(paths) THEN [cache |-> cache, rows |-> rows, raised |-> FALSE]
    ELSE LET fp == paths[i]
         IN IF fp \in DOMAIN cache
            THEN PopulateFrom(paths, i + 1, cache,
                     Append(rows, [fp |-> fp, name |-> basename(fp),
                                   size |-> cache[fp][1], mtime |-> cache[fp][2]]))
            ELSE IF StatRaises(fp)
            THEN [cache |-> cache, rows |-> rows, raised |-> TRUE]
            ELSE PopulateFrom(paths, i + 1, (fp :> os_stat(fp)) @@ cache,
                     Append(rows, [fp |-> fp, name |-> basename(fp),
                                   size |-> os_stat(fp)[1], mtime |-> os_stat(fp)[2]]))

\* _populate(paths): the tree is emptied first; a row's fp is the path the
\* row was built from (the widget keeps name, size and mtime only). The
\* status label shows the count when the loop ends without an exception
\* (items = -1 stands for the text 'Ready' it starts with).
populate(paths) ==
    LET r == PopulateFrom(paths, 1, META_CACHE, <<>>)
    IN /\ tree' = r.rows
       /\ META_CACHE' = r.cache
       /\ sel' = 0
       /\ status' = IF r.raised THEN status ELSE [items |-> Len(r.rows)]
       /\ errors' = IF r.raised THEN errors \cup {"_populate"} ELSE errors

\* _check with an item on the queue: get_nowait, then _populate
CheckItem ==
    /\ checks > 0
    /\ queue # <<>>
    /\ queue' = Tail(queue)
    /\ checks' = checks - 1
    /\ populate(Head(queue).paths)
    /\ consumed' = IF Head(queue).id > 0 THEN consumed \cup {Head(queue).id}
                   ELSE consumed
    /\ UNCHANGED <<FUZZY_ENABLED, fsys, denied, filter_entry, use_regex,
                   recursive, scans, nsub, events, envn, ops, log, unscanned,
                   nbvars, dlgvars>>

\* _check with the queue empty and the timer not set again
CheckEmptyOnce ==
    /\ checks > 0
    /\ queue = <<>>
    /\ checks' = checks - 1
    /\ UNCHANGED <<FUZZY_ENABLED, fsys, denied, META_CACHE, filter_entry,
                   use_regex, recursive, queue, tree, sel, status, scans, nsub,
                   consumed, events, envn, ops, log, errors, unscanned,
                   nbvars, dlgvars>>

\* _check with the queue empty: queue.Empty, the timer is set again
CheckEmpty ==
    /\ checks > 0
    /\ queue = <<>>
    /\ UNCHANGED vars

\* ------------------------------------------------------------------------
\* Other processes, and the watchdog observer
\* ------------------------------------------------------------------------

\* another process writes (or creates) a file; the write stamps its mtime
EnvWrite(fp) ==
    /\ envn < MaxEnv
    /\ fp \in FilePaths
    /\ fsys' = [fsys EXCEPT ![fp] = FirstStamp + envn]
    /\ events' = events \cup
           {[kind |-> IF fsys[fp] = 0 THEN "Created" ELSE "Modified", path |-> fp]}
    /\ envn' = envn + 1
    /\ UNCHANGED <<FUZZY_ENABLED, denied, META_CACHE, filter_entry, use_regex,
                   recursive, queue, tree, sel, checks, scans, nsub, consumed,
                   ops, log, errors, unscanned,
                   status,
                   nbvars, dlgvars>>

\* another process removes a file
EnvRemove(fp) ==
    /\ envn < MaxEnv
    /\ fp \in FilePaths
    /\ fsys[fp] # 0
    /\ fsys' = [fsys EXCEPT ![fp] = 0]
    /\ events' = events \cup {[kind |-> "Deleted", path |-> fp]}
    /\ envn' = envn + 1
    /\ UNCHANGED <<FUZZY_ENABLED, denied, META_CACHE, filter_entry, use_regex,
                   recursive, queue, tree, sel, checks, scans, nsub, consumed,
                   ops, log, errors, unscanned,
                   status,
                   nbvars, dlgvars>>

\* another process takes the permissions of a directory away
EnvDeny(d) ==
    /\ envn < MaxEnv
    /\ d \in Dirs \ denied
    /\ denied' = denied \cup {d}
    /\ events' = events \cup {[kind |-> "Modified", path |-> join(d, <<>>)]}
    /\ envn' = envn + 1
    /\ UNCHANGED <<FUZZY_ENABLED, fsys, META_CACHE, filter_entry, use_regex,
                   recursive, queue, tree, sel, checks, scans, nsub, consumed,
                   ops, log, errors, unscanned,
                   status,
                   nbvars, dlgvars>>

\* DirChangeHandler.on_any_event(event): whatever the event, the string
\* 'refresh' is put on the tab's queue
on_any_event(e) ==
    /\ e \in events
    /\ events' = events \ {e}
    /\ queue' = Append(queue, [id |-> 0, paths |-> Refresh])
    /\ unscanned' = TRUE
    /\ UNCHANGED <<FUZZY_ENABLED, fsys, denied, META_CACHE, filter_entry,
                   use_regex, recursive, tree, sel, checks, scans, nsub,
                   consumed, envn, ops, log, errors,
                   status,
                   nbvars, dlgvars>>

\* ------------------------------------------------------------------------
\* File operations: _delete, _copy, _move and the coroutines they submit
\* ------------------------------------------------------------------------

\* the user clicks on a row of the tree
Select(i) ==
    /\ i \in 1..Len(tree)
    /\ sel' = i
    /\ UNCHANGED <<FUZZY_ENABLED, fsys, denied, META_CACHE, filter_entry,
                   use_regex, recursive, queue, tree, checks, scans, nsub,
                   consumed, events, envn, ops, log, errors, unscanned,
                   status,
                   nbvars, dlgvars>>

\* FileManagerTab._selected(): os.path.join(self.path, name of the row)
selected == join(tabs[1].path, tree[sel].name)

\* what the user can type as a destination: a file path, or the directory
\* "sub" itself (a path with no file name)
DstInputs == FilePaths \cup {join("sub", <<>>)}

\* asyncio.run_coroutine_threadsafe(coro, ASYNC_LOOP): a new future. `scan`
\* is the id of the scan the same callback submits through _filter right
\* after (0 for _copy, which calls no _filter).
Submit(kind, src, dst) ==
    Append(ops, [kind |-> kind, src |-> src, dst |-> dst, st |-> "queued",
                 err |-> "", copied |-> FALSE,
                 scan |-> IF kind = "copy" THEN 0 ELSE nsub + 1])

\* the rows the model lets the user act on are rows named like a file
\* (the row of the subdirectory "s" is never trashed, copied or moved)
Actionable == sel # 0 /\ tree[sel].name \in FileNames /\ Len(ops) < MaxOps

\* _delete, the user answering the askyesno dialog with `yes`
delete(yes) ==
    /\ Actionable
    /\ IF yes
       THEN /\ ops' = Submit("trash", selected, NoPath)
            /\ log' = log \cup {LogLine("Trashed", 0, selected, NoPath)}
            /\ filter(filter_entry, use_regex, recursive)
       ELSE UNCHANGED <<ops, log, scans, nsub, checks, unscanned>>
    /\ UNCHANGED <<FUZZY_ENABLED, fsys, denied, META_CACHE, filter_entry,
                   use_regex, recursive, queue, tree, sel, consumed, events,
                   envn, errors,
                   status,
                   nbvars, dlgvars>>

\* _copy, the user typing dst into the askstring dialog
copy(dst) ==
    /\ Actionable
    /\ ops' = Submit("copy", selected, dst)
    /\ log' = log \cup {LogLine("Copy", 0, selected, dst)}
    /\ UNCHANGED <<FUZZY_ENABLED, fsys, denied, META_CACHE, filter_entry,
                   use_regex, recursive, queue, tree, sel, checks, scans, nsub,
                   consumed, events, envn, errors, unscanned,
                   status,
                   nbvars, dlgvars>>

\* _move, the user typing dst into the askstring dialog
move(dst) ==
    /\ Actionable
    /\ ops' = Submit("move", selected, dst)
    /\ log' = log \cup {LogLine("Move", 0, selected, dst)}
    /\ filter(filter_entry, use_regex, recursive)
    /\ UNCHANGED <<FUZZY_ENABLED, fsys, denied, META_CACHE, filter_entry,
                   use_regex, recursive, queue, tree, sel, consumed, events,
                   envn, errors,
                   status,
                   nbvars, dlgvars>>

\* shutil.copy2 and shutil.move: a destination that is a directory stands
\* for the file of the source's name inside it
RealDst(op) ==
    IF basename(op.dst) = <<>> THEN join(dirname(op.dst), basename(op.src))
    ELSE op.dst

\* the event watchdog sees when fp is written
WriteEvent(fp) ==
    [kind |-> IF fsys[fp] = 0 THEN "Created" ELSE "Modified", path |-> fp]

\* asyncio.to_thread(...): a thread of the loop's default executor starts
\* the blocking call
OpStart(k) ==
    /\ k \in 1..Len(ops)
    /\ ops[k].st = "queued"
    /\ ops' = [ops EXCEPT ![k].st = "running"]
    /\ UNCHANGED <<FUZZY_ENABLED, fsys, denied, META_CACHE, filter_entry,
                   use_regex, recursive, queue, tree, sel, checks, scans, nsub,
                   consumed, events, envn, log, errors, unscanned,
                   status,
                   nbvars, dlgvars>>

Raised(k, err) == [ops EXCEPT ![k].st = "raised", ![k].err = err]
Done(k) == [ops EXCEPT ![k].st = "ok"]

\* send2trash(path)
TrashRun(k) ==
    /\ k \in 1..Len(ops)
    /\ ops[k].st = "running" /\ ops[k].kind = "trash"
    /\ LET src == ops[k].src
       IN IF ~IsFile(src) \/ dirname(src) \in denied
          THEN /\ ops' = Raised(k, "OSError")
               /\ UNCHANGED <<fsys, events>>
          ELSE /\ ops' = Done(k)
               /\ fsys' = [fsys EXCEPT ![src] = 0]
               /\ events' = events \cup {[kind |-> "Deleted", path |-> src]}
    /\ UNCHANGED <<FUZZY_ENABLED, denied, META_CACHE, filter_entry, use_regex,
                   recursive, queue, tree, sel, checks, scans, nsub, consumed,
                   envn, log, errors, unscanned,
                   status,
                   nbvars, dlgvars>>

\* shutil.copy2(src, dst): an existing destination file is opened for
\* writing and overwritten; content and mtime are those of the source
CopyRun(k) ==
    /\ k \in 1..Len(ops)
    /\ ops[k].st = "running" /\ ops[k].kind = "copy"
    /\ LET src == ops[k].src
           dst == RealDst(ops[k])
       IN IF ~IsFile(src)
          THEN /\ ops' = Raised(k, "FileNotFoundError")
               /\ UNCHANGED <<fsys, events>>
          ELSE IF dirname(src) \in denied \/ dirname(dst) \in denied
          THEN /\ ops' = Raised(k, "PermissionError")
               /\ UNCHANGED <<fsys, events>>
          ELSE IF src = dst
          THEN /\ ops' = Raised(k, "SameFileError")
               /\ UNCHANGED <<fsys, events>>
          ELSE /\ ops' = Done(k)
               /\ fsys' = [fsys EXCEPT ![dst] = fsys[src]]
               /\ events' = events \cup {WriteEvent(dst)}
    /\ UNCHANGED <<FUZZY_ENABLED, denied, META_CACHE, filter_entry, use_regex,
                   recursive, queue, tree, sel, checks, scans, nsub, consumed,
                   envn, log, errors, unscanned,
                   status,
                   nbvars, dlgvars>>

\* shutil.move(src, dst) up to and including os.rename, and, when the
\* rename raises because the destination is on another volume, the copy2
\* that follows it
MoveRun(k) ==
    /\ k \in 1..Len(ops)
    /\ ops[k].st = "running" /\ ops[k].kind = "move"
    /\ LET src == ops[k].src
           dst == RealDst(ops[k])
       IN IF basename(ops[k].dst) = <<>> /\ IsFile(dst)
          THEN /\ ops' = Raised(k, "Error")  \* Destination path already exists
               /\ UNCHANGED <<fsys, events>>
          ELSE IF ~IsFile(src)
          THEN /\ ops' = Raised(k, "FileNotFoundError")
               /\ UNCHANGED <<fsys, events>>
          ELSE IF dirname(src) \in denied \/ dirname(dst) \in denied
          THEN /\ ops' = Raised(k, "PermissionError")
               /\ UNCHANGED <<fsys, events>>
          ELSE IF src = dst
          THEN /\ ops' = Done(k)
               /\ UNCHANGED <<fsys, events>>
          ELSE IF Volume(dirname(src)) = Volume(dirname(dst))
          THEN /\ ops' = Done(k)
               /\ fsys' = [fsys EXCEPT ![dst] = fsys[src], ![src] = 0]
               /\ events' = events \cup {[kind |-> "Deleted", path |-> src],
                                         WriteEvent(dst)}
          ELSE /\ ops' = [ops EXCEPT ![k].st = "copied", ![k].copied = TRUE]
               /\ fsys' = [fsys EXCEPT ![dst] = fsys[src]]
               /\ events' = events \cup {WriteEvent(dst)}
    /\ UNCHANGED <<FUZZY_ENABLED, denied, META_CACHE, filter_entry, use_regex,
                   recursive, queue, tree, sel, checks, scans, nsub, consumed,
                   envn, log, errors, unscanned,
                   status,
                   nbvars, dlgvars>>

\* the os.unlink(src) that ends a move across volumes; `allowed` is whether
\* the source's directory lets the process remove an entry from it
MoveUnlink(k, allowed) ==
    /\ k \in 1..Len(ops)
    /\ ops[k].st = "copied"
    /\ LET src == ops[k].src
       IN IF ~IsFile(src)
          THEN /\ ops' = Raised(k, "FileNotFoundError")
               /\ UNCHANGED <<fsys, events>>
          ELSE IF ~allowed
          THEN /\ ops' = Raised(k, "PermissionError")
               /\ UNCHANGED <<fsys, events>>
          ELSE /\ ops' = Done(k)
               /\ fsys' = [fsys EXCEPT ![src] = 0]
               /\ events' = events \cup {[kind |-> "Deleted", path |-> src]}
    /\ UNCHANGED <<FUZZY_ENABLED, denied, META_CACHE, filter_entry, use_regex,
                   recursive, queue, tree, sel, checks, scans, nsub, consumed,
                   envn, log, errors, unscanned,
                   status,
                   nbvars, dlgvars>>

\* ------------------------------------------------------------------------
\* The notebook: create_tab, _close_tab and the navigation handlers
\* ------------------------------------------------------------------------

\* what the user can type into a tab's path field: a directory, or a path
\* that is no directory
PathInputs == Dirs \cup {"nodir"}
\* os.path.isdir(p): the stat of the subdirectory goes through "home"
isdir(p) == p \in Dirs /\ (p = "sub" => "home" \notin denied)
\* Path(d).parent, for the directory of the model that has its parent in it
Parent(d) == IF d = "sub" THEN "home" ELSE d

\* what FileManagerTab.__init__ gives a tab after the first
NewTab ==
    [queue |-> <<>>, checks |-> 1, rows |-> <<>>, status |-> [items |-> -1]]

\* NextLevelFileManager.create_tab(p), the tab objects so far being ts:
\* FileManagerTab.__init__ starts an Observer on p and calls _filter (pattern
\* '*', both boxes off; the scan is numbered by the tab, below zero), the
\* frame is added to the notebook and selected, and the creation is logged
create_tab(ts, p) ==
    LET t == Len(ts) + 1
    IN  /\ Len(ts) < MaxTabs
        /\ current_path' = p
        /\ tabs' = Append(ts, [path |-> p, open |-> TRUE])
        /\ more' = more @@ (t :> NewTab)
        /\ observers' = observers \cup {[tab |-> t, path |-> p]}
        /\ scans' = Append(scans, ScanTask(-t, p, <<"*">>, FALSE, FALSE, t, TRUE))
        /\ log' = log \cup {LogLine("Tab created", 0, join(p, <<>>), NoPath)}
        /\ UNCHANGED <<FUZZY_ENABLED, fsys, denied, META_CACHE, filter_entry,
                       use_regex, recursive, queue, tree, sel, status, checks,
                       nsub, consumed, events, envn, ops, errors, unscanned,
                   dlgvars>>

\* File > New Tab
new_tab == create_tab(tabs, current_path)

\* File > Close Tab with tab t selected: notebook.forget and a log line;
\* the tab object, its timers and its Observer are left as they are
close_tab(t) ==
    /\ t \in 1..Len(tabs)
    /\ tabs[t].open
    /\ tabs' = [tabs EXCEPT ![t].open = FALSE]
    /\ log' = log \cup {LogLine("Tab closed", 0, NoPath, NoPath)}
    /\ UNCHANGED <<FUZZY_ENABLED, fsys, denied, META_CACHE, filter_entry,
                   use_regex, recursive, queue, tree, sel, status, checks,
                   scans, nsub, consumed, events, envn, ops, errors,
                   unscanned, current_path, more, observers,
                   dlgvars>>

\* _goto_path of tab t with p in its path field: self.path = p and a new
\* tab on p, or the 'Invalid Path' box
goto_path(t, p) ==
    /\ t \in 1..Len(tabs)
    /\ tabs[t].open
    /\ IF isdir(p)
       THEN create_tab([tabs EXCEPT ![t].path = p], p)
       ELSE UNCHANGED vars

\* the up button of tab t
go_up(t) ==
    /\ t \in 1..Len(tabs)
    /\ Parent(tabs[t].path) # tabs[t].path
    /\ goto_path(t, Parent(tabs[t].path))

\* the home button of tab t; Path.home() is "home"
go_home(t) == goto_path(t, "home")

\* _check of tab t (a tab after the first) with an item on its queue
CheckItemOf(t) ==
    /\ t \in DOMAIN more
    /\ more[t].checks > 0
    /\ more[t].queue # <<>>
    /\ LET r == PopulateFrom(Head(more[t].queue).paths, 1, META_CACHE, <<>>)
       IN /\ more' = [more EXCEPT
                         ![t].queue = Tail(@),
                         ![t].checks = @ - 1,
                         ![t].rows = r.rows,
                         ![t].status = IF r.raised THEN @
                                       ELSE [items |-> Len(r.rows)]]
          /\ META_CACHE' = r.cache
          /\ errors' = IF r.raised THEN errors \cup {"_populate"} ELSE errors
    /\ UNCHANGED <<FUZZY_ENABLED, fsys, denied, filter_entry, use_regex,
                   recursive, queue, tree, sel, status, checks, scans, nsub,
                   consumed, events, envn, ops, log, unscanned, current_path,
                   tabs, observers,
                   dlgvars>>

\* _check of tab t with its queue empty: the timer is set again
CheckEmptyOf(t) ==
    /\ t \in DOMAIN more
    /\ more[t].checks > 0
    /\ more[t].queue = <<>>
    /\ UNCHANGED vars

\* ------------------------------------------------------------------------
\* UltraAdvancedFileDialog: the filter, the two lists and delete_command
\* ------------------------------------------------------------------------

\* os.pardir, the first entry of the directory list
Pardir == <<".", ".">>

\* os.listdir(d) raises OSError: no such directory, or it cannot be read
ListdirRaises(d) == ~isdir(d) \/ d \in denied

\* the names os.listdir(d) returns that are directories
Subdirs(d) == IF d = "home" THEN <<SubName>> ELSE <<>>

\* the test _refresh_listing makes on the name of a file: re.search with
\* re.error taken as no match, or fnmatch
DlgMatches(name, pat, regex) ==
    IF regex THEN re_compiles(pat) /\ re_search(pat, name)
    ELSE fnmatch(name, pat)

\* files after files.sort(): the directory order of the model (NameOrder)
\* is the sorted order
DlgFiles(d, pat, regex) ==
    SelectSeq(FilesOf(d), LAMBDA n : DlgMatches(n, pat, regex))

\* os.path.normpath(os.path.join(d, entry)) for an entry of the directory
\* list; "nodir" is a path that is no directory
Resolve(d, entry) ==
    IF entry = Pardir THEN Parent(d)
    ELSE IF d = "home" /\ entry = SubName THEN "sub"
    ELSE "nodir"

\* filter_command: top.after(1, self._refresh_listing)
filter_command ==
    /\ refreshes < MaxRefresh
    /\ refreshes' = refreshes + 1

\* the user edits the filter entry and the Regex box and presses Return
DlgFilterReturn(d, pat, regex) ==
    /\ dlg_filter' = [dir |-> d, pat |-> pat]
    /\ dlg_regex' = regex
    /\ filter_command
    /\ UNCHANGED <<fsys, denied, events, envn, nlfmvars, directory,
                   dir_listbox, file_tree, file_sel, listed>>

\* _refresh_listing: the directory and pattern of the filter entry; a
\* listing that fails shows an error box and returns, everything else as
\* it was; otherwise self.directory and both lists are set from the listing
\* and the selection is gone
refresh_listing ==
    /\ refreshes > 0
    /\ refreshes' = refreshes - 1
    /\ IF ListdirRaises(dlg_filter.dir)
       THEN UNCHANGED <<directory, dir_listbox, file_tree, file_sel, listed>>
       ELSE /\ directory' = dlg_filter.dir
            /\ dir_listbox' = <<Pardir>> \o Subdirs(dlg_filter.dir)
            /\ file_tree' = DlgFiles(dlg_filter.dir, dlg_filter.pat, dlg_regex)
            /\ file_sel' = {}
            /\ listed' = dlg_filter.dir
    /\ UNCHANGED <<fsys, denied, events, envn, nlfmvars, dlg_filter, dlg_regex>>

\* dir_select_event on entry k of the directory list: self.directory is
\* set as soon as the path is a directory, then the filter and a refresh
\* (the parent of "home" lies outside the directories of the model)
dir_select_event(k) ==
    /\ k \in 1..Len(dir_listbox)
    /\ LET new_dir == Resolve(directory, dir_listbox[k])
       IN /\ new_dir # directory
          /\ IF isdir(new_dir)
             THEN /\ directory' = new_dir
                  /\ dlg_filter' = [dir |-> new_dir, pat |-> dlg_filter.pat]
                  /\ filter_command
             ELSE UNCHANGED <<directory, dlg_filter, refreshes>>
    /\ UNCHANGED <<fsys, denied, events, envn, nlfmvars, dlg_regex,
                   dir_listbox, file_tree, file_sel, listed>>

\* fav_double_event on the favorite that is a directory, the home directory
fav_double_event ==
    /\ directory' = "home"
    /\ dlg_filter' = [dir |-> "home", pat |-> <<"*">>]
    /\ filter_command
    /\ UNCHANGED <<fsys, denied, events, envn, nlfmvars, dlg_regex,
                   dir_listbox, file_tree, file_sel, listed>>

\* the user selects the rows named in S in the file list
file_select_event(S) ==
    /\ S \subseteq {file_tree[k] : k \in 1..Len(file_tree)}
    /\ S # file_sel
    /\ file_sel' = S
    /\ UNCHANGED <<fsys, denied, events, envn, nlfmvars, directory,
                   dlg_filter, dlg_regex, dir_listbox, file_tree, refreshes,
                   listed>>

\* delete_command, the user answering the confirmation with `confirm`:
\* os.remove of os.path.join(self.directory, name) for every selected name
\* that os.path.isfile finds, then filter_command
delete_command(confirm) ==
    /\ file_sel # {}
    /\ IF confirm
       THEN /\ fsys' = [fp \in DOMAIN fsys |->
                         IF /\ dirname(fp) = directory
                            /\ basename(fp) \in file_sel
                            /\ ~StatRaises(fp)
                         THEN 0 ELSE fsys[fp]]
            /\ filter_command
       ELSE UNCHANGED <<fsys, refreshes>>
    /\ UNCHANGED <<denied, events, envn, nlfmvars, directory, dlg_filter,
                   dlg_regex, dir_listbox, file_tree, file_sel, listed>>

\* ------------------------------------------------------------------------
\* Specification
\* ------------------------------------------------------------------------

\* The two programs of the file run one after the other; a specification
\* follows one of them and leaves the variables of the other as they are
\* here. NLFM: the state after NextLevelFileManager.__init__ has created the
\* first tab on the home directory: the files of the two directories, an
\* empty cache (first run), the tab's observer started, and the first _filter
\* (pattern '*', both boxes off) submitted with its poll timer pending.
\* The dialog: the state in which go(<home directory>) enters the main loop:
\* self.directory set, the filter entry filled, the lists still empty and
\* the first refresh pending.
Init ==
    /\ FUZZY_ENABLED \in BOOLEAN
    /\ fsys = InitFiles
    /\ denied = {}
    /\ META_CACHE = <<>>
    /\ filter_entry = <<"*">>
    /\ use_regex = FALSE
    /\ recursive = FALSE
    /\ queue = <<>>
    /\ tree = <<>>
    /\ sel = 0
    /\ status = [items |-> -1]
    /\ checks = 1
    /\ scans = <<ScanTask(1, "home", <<"*">>, FALSE, FALSE, 1, TRUE)>>
    /\ nsub = 1
    /\ consumed = {}
    /\ events = {}
    /\ envn = 0
    /\ ops = <<>>
    /\ log = {LogLine("Tab created", 0, join("home", <<>>), NoPath)}
    /\ errors = {}
    /\ unscanned = FALSE
    /\ current_path = "home"
    /\ tabs = <<[path |-> "home", open |-> TRUE]>>
    /\ more = <<>>
    /\ observers = {[tab |-> 1, path |-> "home"]}
    /\ directory = "home"
    /\ dlg_filter = [dir |-> "home", pat |-> <<"*">>]
    /\ dlg_regex = FALSE
    /\ dir_listbox = <<>>
    /\ file_tree = <<>>
    /\ file_sel = {}
    /\ refreshes = 1
    /\ listed = "none"

Next ==
    \/ \E p \in Patterns, rx \in BOOLEAN, rc \in BOOLEAN : FilterReturn(p, rx, rc)
    \/ toggle_recursive
    \/ \E i \in 1..Len(scans) : ScanRun(i)
    \/ \E i \in 1..Len(scans) : ScanPut(i)
    \/ CheckItem
    \/ CheckEmpty
    \/ \E fp \in FilePaths : EnvWrite(fp)
    \/ \E fp \in FilePaths : EnvRemove(fp)
    \/ \E d \in Dirs : EnvDeny(d)
    \/ \E e \in events : on_any_event(e)

Spec == Init /\ [][Next]_vars

\* the tab with the user acting on its rows: no other process touches the
\* files, and the filter form is left as it is
NextOps ==
    \/ \E i \in 1..Len(tree) : Select(i)
    \/ \E yes \in BOOLEAN : delete(yes)
    \/ \E dst \in DstInputs : copy(dst)
    \/ \E dst \in DstInputs : move(dst)
    \/ \E k \in 1..Len(ops) : OpStart(k)
    \/ \E k \in 1..Len(ops) : TrashRun(k)
    \/ \E k \in 1..Len(ops) : CopyRun(k)
    \/ \E k \in 1..Len(ops) : MoveRun(k)
    \/ \E k \in 1..Len(ops), allowed \in BOOLEAN : MoveUnlink(k, allowed)
    \/ toggle_recursive
    \/ \E i \in 1..Len(scans) : ScanRun(i)
    \/ \E i \in 1..Len(scans) : ScanPut(i)
    \/ CheckItem
    \/ CheckEmpty
    \/ \E e \in events : on_any_event(e)

SpecOps == Init /\ [][NextOps]_vars

\* the notebook with the user opening, closing and navigating tabs, and
\* deleting rows of the first tab
NextTabs ==
    \/ new_tab
    \/ \E t \in 1..Len(tabs) : close_tab(t)
    \/ \E t \in 1..Len(tabs), p \in PathInputs : goto_path(t, p)
    \/ \E t \in 1..Len(tabs) : go_up(t)
    \/ \E t \in 1..Len(tabs) : go_home(t)
    \/ toggle_recursive
    \/ \E i \in 1..Len(scans) : ScanRun(i)
    \/ \E i \in 1..Len(scans) : ScanPut(i)
    \/ CheckItem
    \/ CheckEmpty
    \/ \E t \in DOMAIN more : CheckItemOf(t)
    \/ \E t \in DOMAIN more : CheckEmptyOf(t)
    \/ \E i \in 1..Len(tree) : Select(i)
    \/ \E yes \in BOOLEAN : delete(yes)
    \/ \E k \in 1..Len(ops) : OpStart(k)
    \/ \E k \in 1..Len(ops) : TrashRun(k)
    \/ \E e \in events : on_any_event(e)

SpecTabs == Init /\ [][NextTabs]_vars

\* the dialog with the user filtering, navigating, selecting and deleting,
\* while other processes take permissions away
NextDialog ==
    \/ \E d \in PathInputs, pat \in Patterns, regex \in BOOLEAN :
          DlgFilterReturn(d, pat, regex)
    \/ refresh_listing
    \/ \E k \in 1..Len(dir_listbox) : dir_select_event(k)
    \/ fav_double_event
    \/ \E S \in SUBSET FileNames : file_select_event(S)
    \/ \E confirm \in BOOLEAN : delete_command(confirm)
    \/ \E d \in Dirs : EnvDeny(d)

SpecDialog == Init /\ [][NextDialog]_vars

\* ------------------------------------------------------------------------
\* Claims
\* ------------------------------------------------------------------------

Range(seq) == {seq[k] : k \in 1..Len(seq)}

\* the tasks of the pool in the next state that came from task i
After(i) == {k \in 1..Len(scans') : scans'[k].id = scans[i].id}

\* a worker runs task i of the pool in this step: the queued task is gone
\* (scan() raised) or has its results
Runs(i) ==
    /\ i \in 1..Len(scans)
    /\ scans[i].st = "queued"
    /\ \A k \in After(i) : scans'[k].st = "running"

\* the run of task i leaves results to be published
Left(i) == After(i) # {}
\* the results it leaves
LeftResults(i) == scans'[CHOOSE k \in After(i) : TRUE].results

\* the files of directory d whose names match pat as a shell wildcard
GlobFiles(d, pat) ==
    {join(d, n) : n \in {m \in FileNames : fsys[join(d, m)] # 0 /\ fnmatch(m, pat)}}

\* C1: a non-recursive scan with the Regex box off (a Glob scan) of a
\* directory that can be listed yields exactly the files of the directory
\* whose names match the pattern as a shell wildcard: no other name, no
\* subdirectory, and every matching file.
C1_GlobScanExact ==
    [][\A i \in 1..Len(scans) :
          (Runs(i) /\ ~scans[i].use_regex /\ ~scans[i].recursive
           /\ scans[i].root \notin denied)
          => (Left(i)
              /\ Range(LeftResults(i)) = GlobFiles(scans[i].root, scans[i].pattern))
      ]_vars

\* C2: a scan in Regex mode whose pattern does not compile, of a directory
\* that can be listed, ends with the empty result left to be put on the
\* queue: it does not end in an exception with nothing published.
C2_BadRegexEmptyResult ==
    [][\A i \in 1..Len(scans) :
          (Runs(i) /\ scans[i].use_regex /\ ~re_compiles(scans[i].pattern)
           /\ scans[i].root \notin denied)
          => (Left(i) /\ LeftResults(i) = <<>>)
      ]_vars

\* _check takes a scan's result from the queue in this step
TakesResult == queue # <<>> /\ queue' = Tail(queue) /\ Head(queue).id > 0

\* C3: the rows _populate shows for a scan's result carry the size and
\* mtime the file has at that moment, whatever the cache held before.
C3_RowsShowCurrentStat ==
    [][TakesResult
       => \A k \in 1..Len(tree') :
             IsFile(tree'[k].fp)
             => <<tree'[k].size, tree'[k].mtime>> = StatOf(fsys[tree'[k].fp])
      ]_vars

\* C4: once the watcher has reported Deleted for a path that is in the
\* metadata cache, the cache has no entry for that path.
C4_DeletedInvalidates ==
    [][\A e \in events \ events' :
          (e.kind = "Deleted" /\ e.path \in DOMAIN META_CACHE)
          => e.path \notin DOMAIN META_CACHE'
      ]_vars

\* nothing is left that runs without the user: no poll timer, no scan in
\* the pool, no event to dispatch
Idle == checks = 0 /\ scans = <<>> /\ events = {}

\* C5: a change the watcher reported is followed by a fresh scan without
\* any user action: the tab never comes to rest with a reported change
\* that no scan was submitted after.
C5_ChangeRescanned == Idle => ~unscanned

\* C6: a scan whose root cannot be read, recursive or not, ends without a
\* result left to be published and with its error reported.
C6_UnreadableRootFails ==
    [][\A i \in 1..Len(scans) :
          (Runs(i) /\ scans[i].root \in denied)
          => (~Left(i) /\ "scan" \in errors')
      ]_vars

\* C7: the result of a scan that a newer scan has superseded is discarded
\* when it is taken from the queue: it is not populated, and the metadata
\* cache stays as it is.
C7_SupersededDiscarded ==
    [][(TakesResult /\ Head(queue).id < nsub)
       => (consumed' = consumed /\ tree' = tree /\ META_CACHE' = META_CACHE)
      ]_vars

\* what the future of an operation reports
Outcome(op) ==
    CASE op.st = "ok" -> "Succeeded"
      [] op.st = "raised" -> op.err
      [] OTHER -> "Pending"

\* C8: the log says an operation was done only when it has finished and
\* succeeded: a "Trashed <path>" line is backed by a trash of that path
\* whose outcome is Succeeded.
C8_LoggedMeansDone ==
    \A line \in log :
        line.msg = "Trashed"
        => \E k \in 1..Len(ops) :
              /\ ops[k].kind = "trash" /\ ops[k].src = line.fp
              /\ Outcome(ops[k]) = "Succeeded"

\* the copy k ends in this step
CopyEnds(k) ==
    /\ k \in 1..Len(ops) /\ Len(ops') = Len(ops)
    /\ ops[k].kind = "copy" /\ ops[k].st = "running" /\ ops'[k].st # "running"

\* C9: a copy onto an existing file other than the source leaves that file
\* as it was and ends with the outcome DestinationConflict.
C9_CopyNeverOverwrites ==
    [][\A k \in 1..Len(ops) :
          (CopyEnds(k) /\ IsFile(ops[k].src) /\ IsFile(RealDst(ops[k]))
           /\ RealDst(ops[k]) # ops[k].src)
          => (/\ fsys'[RealDst(ops[k])] = fsys[RealDst(ops[k])]
              /\ Outcome(ops'[k]) = "DestinationConflict")
      ]_vars

\* C10: a move across volumes whose copy was made and whose removal of the
\* source was refused has the outcome PartialMove, with the source and the
\* copy both on disk.
C10_PartialMoveReported ==
    \A k \in 1..Len(ops) :
        (ops[k].kind = "move" /\ ops[k].copied /\ ops[k].st = "raised"
         /\ ops[k].err = "PermissionError")
        => (/\ Outcome(ops[k]) = "PartialMove"
            /\ IsFile(ops[k].src) /\ IsFile(RealDst(ops[k])))

\* the operation is being executed by a thread of the loop's executor
Executing(op) == op.st \in {"running", "copied"}
\* the paths an operation reads or writes
PathsOf(op) == IF op.kind = "trash" THEN {op.src} ELSE {op.src, RealDst(op)}

\* C11: two operations that share a source or destination path are never
\* executed at the same time.
C11_SamePathSerialized ==
    \A j \in 1..Len(ops), k \in 1..Len(ops) :
        (j # k /\ Executing(ops[j]) /\ Executing(ops[k]))
        => PathsOf(ops[j]) \cap PathsOf(ops[k]) = {}

\* C12: the scan that _delete or _move submits after its operation is run
\* by a worker only once that operation has finished.
C12_RescanAfterOperation ==
    [][\A i \in 1..Len(scans) :
          Runs(i)
          => \A k \in 1..Len(ops) :
                ops[k].scan = scans[i].id => ops[k].st \in {"ok", "raised"}
      ]_vars

\* C13: when os.stat fails for one path of a scan's result, only that path
\* is dropped: every other path of the result is shown as a row.
C13_StatFailureDropsOneEntry ==
    [][TakesResult
       => \A fp \in Range(Head(queue).paths) :
             ~StatRaises(fp) => \E k \in 1..Len(tree') : tree'[k].fp = fp
      ]_vars

\* the paths among the candidates of task t whose names test(name) accepts
Chosen(t, test(_)) ==
    SelectSeq(Candidates(t.root, t.recursive), LAMBDA fp : test(basename(fp)))

\* C14: a scan in Regex mode (the pattern compiles, the directory can be
\* listed) yields exactly the entries in whose name an unanchored search of
\* the pattern finds a match.
C14_RegexModeOnlyRegex ==
    [][\A i \in 1..Len(scans) :
          (Runs(i) /\ scans[i].use_regex /\ re_compiles(scans[i].pattern)
           /\ (scans[i].recursive \/ scans[i].root \notin denied))
          => (Left(i)
              /\ LeftResults(i)
                 = Chosen(scans[i], LAMBDA n : re_search(scans[i].pattern, n)))
      ]_vars

\* C15: without rapidfuzz (FUZZY_ENABLED false), a scan requested with
\* fuzzy=True and the Regex box off, of a directory that can be listed, ends
\* without an exception and yields exactly the entries whose names match
\* the pattern as a shell wildcard, as the scan in Glob mode does.
C15_FuzzyDegradesToGlob ==
    [][\A i \in 1..Len(scans) :
          (Runs(i) /\ ~FUZZY_ENABLED /\ scans[i].fuzzy /\ ~scans[i].use_regex
           /\ (scans[i].recursive \/ scans[i].root \notin denied))
          => (Left(i)
              /\ LeftResults(i)
                 = Chosen(scans[i], LAMBDA n : fnmatch(n, scans[i].pattern)))
      ]_vars

\* a fuzzy scan without rapidfuzz has run for a pattern that is close to a
\* name of the directory and matches none as a wildcard: nothing is chosen
C15_Witness ==
    /\ ~FUZZY_ENABLED
    /\ \E i \in 1..Len(scans) :
          /\ scans[i].st = "running" /\ scans[i].fuzzy /\ ~scans[i].use_regex
          /\ scans[i].pattern = <<"a", ".", "l">>
          /\ PartialRatioAbove(scans[i].pattern, <<"a", ".", "t">>, FUZZY_THRESHOLD)
          /\ fsys[join(scans[i].root, <<"a", ".", "t">>)] # 0
          /\ scans[i].results = <<>>

\* the scan tasks worker threads of EXECUTOR are busy with
RunningScans == {j \in 1..Len(scans) : scans[j].st = "running"}
\* task i is the oldest task of the pool no worker has taken
OldestQueued(i) ==
    /\ i \in 1..Len(scans)
    /\ scans[i].st = "queued"
    /\ \A j \in 1..(i - 1) : scans[j].st # "queued"

C17_ForegroundNeverBlocks ==
    /\ [](checks > 0 => ENABLED (CheckItem \/ CheckEmpty))
    /\ [][/\ (queue = <<>> /\ queue' = <<>>) => checks' >= checks
          /\ nsub' = nsub + 1
             => \E k \in 1..Len(scans') :
                   scans'[k].id = nsub' /\ scans'[k].st = "queued"
          /\ Len(ops') = Len(ops) + 1 => ops'[Len(ops')].st = "queued"
        ]_vars

\* _delete has returned with its trash and its scan both waiting, and the
\* poll timer finds the queue empty
C17_Witness ==
    /\ checks > 0 /\ queue = <<>>
    /\ \E i \in 1..Len(scans) : scans[i].st = "queued"
    /\ \E k \in 1..Len(ops) : ops[k].st = "queued" /\ ops[k].kind = "trash"

\* the tabs whose frame is in the notebook
OpenTabs == {t \in 1..Len(tabs) : tabs[t].open}

\* C18: the running watchers are those of the open tabs, one each, and each
\* observes the directory its tab is on.
C18_OneWatcherPerOpenTab ==
    /\ Cardinality(observers) = Cardinality(OpenTabs)
    /\ \A o \in observers : o.tab \in OpenTabs /\ o.path = tabs[o.tab].path

\* the operation _delete submits in this step, if it submits one
Trashing == {k \in 1..Len(ops') : k > Len(ops) /\ ops'[k].kind = "trash"}
\* send2trash of operation k returns in this step
TrashEnds(k) ==
    /\ k \in 1..Len(ops) /\ Len(ops') = Len(ops)
    /\ ops[k].kind = "trash" /\ ops[k].st = "running" /\ ops'[k].st # "running"

\* C19: the delete command hands to the trash only the file of the row
\* selected at that moment, and a trash removes no file but the one it
\* was handed; a step that submits no trash (the answer no, no selection)
\* starts no removal.
C19_DeleteOnlySelected ==
    [][/\ \A k \in Trashing : sel # 0 /\ ops'[k].src = tree[sel].fp
       /\ \A k \in 1..Len(ops) :
             TrashEnds(k)
             => \A fp \in FilePaths : fsys'[fp] # fsys[fp] => fp = ops[k].src
      ]_vars

\* _check of the first tab takes an item from the queue in this step
Takes == queue # <<>> /\ queue' = Tail(queue)

\* C20: every item _check takes from the queue and hands to _populate is
\* the result of a scan of the tab, never a notification of the watcher.
C20_OnlyResultsPopulated ==
    [][Takes => (Head(queue).id > 0 /\ Head(queue).paths # Refresh)]_vars

\* C21: every scan _filter submits puts one item on the queue for the
\* polling chain that _filter starts: once every scan has left the pool and
\* the queue has been emptied, no chain is left rescheduling itself.
C21_EveryChainStops == (scans = <<>> /\ queue = <<>>) => checks = 0

\* C22: the results of the tab's scans are populated in the order the scans
\* were submitted: a result is never taken after that of a later scan.
C22_PopulatedInSubmissionOrder ==
    [][TakesResult => \A id \in consumed : id < Head(queue).id]_vars

\* C23: the path the row commands act on when a row is selected, the value
\* of _selected(), is the path the scan reported for that row.
C23_SelectedIsReportedPath == sel # 0 => selected = tree[sel].fp

\* C24: the rows of the dialog's file list are entries of self.directory:
\* whenever no refresh is pending, also after a refresh whose listing
\* failed, the file list shown was filled from self.directory.
C24_RowsAreOfDirectory ==
    (refreshes = 0 /\ file_tree # <<>>) => listed = directory

====
